---- MODULE Spec2Model ----
(***************************************************************************)
(* Model of pkg/client/client.go: the custom controller client that reads  *)
(* through a label-filtered informer cache, falls back to the API reader   *)
(* on a cache miss, and updates objects under retry.RetryOnConflict.       *)
(*                                                                         *)
(* The API server (the authoritative store) and the informer cache are the *)
(* environment of the code: the store accepts a conditional write only     *)
(* when the submitted resourceVersion equals the stored one, and the cache *)
(* follows the store through watch events that arrive some time later.     *)
(***************************************************************************)
EXTENDS Integers, Sequences, FiniteSets, TLC

\* ------------------------------------------------------------------ bounds

\* resourceVersion of every object that exists in the initial state
StartRV == 5
\* writes, creates and deletes made by writers other than the client (writer X)
MaxExtWrites == 2
\* client calls started over one behaviour
MaxCalls == 1

\* retry.DefaultRetry.Steps: attempts made by retry.RetryOnConflict
DefaultRetrySteps == 5

\* ----------------------------------------------------------------- catalog

cacheResources ==
  << "Role", "RoleBinding", "ClusterRole", "ClusterRoleBinding", "CSIDriver",
     "ServiceAccount", "Service", "ConfigMap", "Deployment", "DaemonSet",
     "StatefulSet", "ValidatingWebhookConfiguration" >>

cacheResourceWithoutReqSelectors ==
  << "ZeroTrustWorkloadIdentityManager", "SpireAgent", "SpiffeCSIDriver",
     "SpireServer", "SpireOIDCDiscoveryProvider" >>

informerResources ==
  << "ServiceAccount", "Service", "Role", "RoleBinding", "ClusterRole",
     "ClusterRoleBinding", "CSIDriver", "ConfigMap", "Deployment", "DaemonSet",
     "StatefulSet", "ValidatingWebhookConfiguration",
     "ZeroTrustWorkloadIdentityManager", "SpireAgent", "SpiffeCSIDriver",
     "SpireServer", "SpireOIDCDiscoveryProvider" >>

Range(s) == { s[i] : i \in 1..Len(s) }

\* customCacheObjects: the per-kind cache.ByObject table. The second loop
\* writes after the first, as in the code.
customCacheObjects ==
  [ k \in Range(cacheResources) \cup Range(cacheResourceWithoutReqSelectors) |->
      IF k \in Range(cacheResourceWithoutReqSelectors) THEN "All" ELSE "Label" ]

\* ----------------------------------------------------------------- objects

Callers == { "y1", "y2" }

\* Object keys: a kind and a name (the namespace is part of the name).
Keys == { <<"Role", "a">>, <<"Role", "b">>, <<"SpireServer", "s">> }

KindOf(key) == key[1]

\* An object: its resourceVersion, its spec, its status and whether it
\* carries the label app.kubernetes.io/managed-by of the operator.
Obj(rv, data, status, labelled) ==
  [ exists |-> TRUE, rv |-> rv, data |-> data, status |-> status, labelled |-> labelled ]

\* No object; the store keeps the last resourceVersion of a deleted key so
\* that versions never repeat.
Gone(rv) ==
  [ exists |-> FALSE, rv |-> rv, data |-> "-", status |-> "-", labelled |-> FALSE ]

NoObj == Gone(0)

\* ------------------------------------------------------------------ errors

Nil == [ class |-> "nil", key |-> <<>> ]

\* An API status error, or an error of the cache, of a class.
Err(class) == [ class |-> class, key |-> <<>> ]

\* fmt.Errorf("... %q ...: %w", key, err): the message names the key and the
\* wrapped error is kept, so the kerrors.Is* tests see its class.
Wrap(key, err) == [ class |-> err.class, key |-> key ]

IsNotFound(err) == err.class = "NotFound"
IsAlreadyExists(err) == err.class = "AlreadyExists"
IsConflict(err) == err.class = "Conflict"

VARIABLES
  bpc,             \* position of BuildCustomClient / NewCustomClient
  bi,              \* index of the informerResources loop
  informers,       \* kinds whose informer the cache holds
  cacheByObject,   \* the cache's ByObject options
  cacheRegistered, \* mgr.Add(customCache) has succeeded
  failedAt,        \* the construction step that returned an error
  clientRet,       \* what NewCustomClient returned
  cacheStarted,    \* the manager has started the cache and its informers
  cacheSynced,     \* the started informers have delivered their initial list
  store,           \* the API server's objects
  cache,           \* the informer cache's objects
  call,            \* the call each caller is in
  extWrites,       \* writes made by other writers so far
  calls            \* client calls started so far

vars == << bpc, bi, informers, cacheByObject, cacheRegistered, failedAt, clientRet,
           cacheStarted, cacheSynced, store, cache, call, extWrites, calls >>

buildVars == << bpc, bi, informers, cacheByObject, cacheRegistered, failedAt, clientRet >>

\* ------------------------------------------------------------------- store

\* A cache that selects every object of the kinds it holds.
Selected_noLabel(byObject, key, o) ==
  /\ o.exists
  /\ KindOf(key) \in DOMAIN byObject

\* What a label-selected watch of the kind shows of a stored object.
Selected(byObject, key, o) ==
  /\ o.exists
  /\ KindOf(key) \in DOMAIN byObject
  /\ (byObject[KindOf(key)] = "Label" => o.labelled)

CacheView(byObject, key, o) == IF Selected(byObject, key, o) THEN o ELSE NoObj

\* apiReader.Get, and every read that reaches the API server.
StoreGet(key) ==
  IF store[key].exists
    THEN [ err |-> Nil, obj |-> store[key] ]
    ELSE [ err |-> Err("NotFound"), obj |-> NoObj ]

\* Kinds whose update strategy accepts an update without a resourceVersion
\* (the built-in kinds; custom resources require one).
AllowUnconditionalUpdate(key) == KindOf(key) \in Range(cacheResources)

\* The API server's answer to an update of key carrying resourceVersion rv.
UpdateErr(key, rv) ==
  IF ~store[key].exists THEN Err("NotFound")
  ELSE IF rv = 0 THEN (IF AllowUnconditionalUpdate(key) THEN Nil ELSE Err("Invalid"))
  ELSE IF rv # store[key].rv THEN Err("Conflict")
  ELSE Nil

\* Kinds served with a status subresource (+kubebuilder:subresource:status):
\* the custom resources of the operator.
HasStatusSubresource(key) == KindOf(key) \in Range(cacheResourceWithoutReqSelectors)

\* The API server's answer to an update of the status subresource.
StatusUpdateErr(key, rv) ==
  IF ~HasStatusSubresource(key) THEN Err("NotFound") ELSE UpdateErr(key, rv)

\* The stored object after an accepted update: the spec and labels come from
\* the request; the status of a kind with a status subresource stays.
Updated(key, o) ==
  Obj(store[key].rv + 1, o.data,
      IF HasStatusSubresource(key) THEN store[key].status ELSE o.status, o.labelled)

\* The stored object after an accepted update of the status subresource.
StatusUpdated(key, o) ==
  Obj(store[key].rv + 1, store[key].data, o.status, store[key].labelled)

Created(key, o) == Obj(store[key].rv + 1, o.data, o.status, o.labelled)

\* ------------------------------------------------------------------- cache

\* customCache.Get as the client's cache reader (ReaderFailOnMissingInformer).
CacheGet(key) ==
  IF KindOf(key) \notin informers THEN [ err |-> Err("ResourceNotCached"), obj |-> NoObj ]
  ELSE IF ~cacheStarted THEN [ err |-> Err("CacheNotStarted"), obj |-> NoObj ]
  ELSE IF cache[key].exists THEN [ err |-> Nil, obj |-> cache[key] ]
  ELSE [ err |-> Err("NotFound"), obj |-> NoObj ]

\* customCache.List of a kind.
CacheList(kind) ==
  IF kind \notin informers THEN [ err |-> Err("ResourceNotCached"), items |-> {} ]
  ELSE IF ~cacheStarted THEN [ err |-> Err("CacheNotStarted"), items |-> {} ]
  ELSE [ err |-> Nil,
         items |-> { <<k, cache[k]>> : k \in { q \in Keys : KindOf(q) = kind /\ cache[q].exists } } ]

\* ------------------------------------------------------------------- calls

\* A caller that has made no call yet; a call that has returned stays, with
\* its results, until the caller starts the next. The fields reads .. synced0 record
\* what the call did; the code reads none of them.
IdleCall ==
  [ op |-> "idle", pc |-> "idle", key |-> << >>,
    obj |-> NoObj,       \* the caller-supplied object
    steps |-> 0,         \* backoff.Steps left
    result |-> Nil,      \* the error returned
    ok |-> FALSE,        \* the boolean returned by Exists
    out |-> NoObj,       \* the object delivered by Get
    items |-> {},        \* the objects delivered by List
    reads |-> 0,         \* reads of the cache reader
    directReads |-> 0,   \* reads of the API reader
    creates |-> 0,       \* Create requests submitted
    writes |-> 0,        \* Update requests submitted
    conflicts |-> 0,     \* Update requests rejected as Conflict
    sent |-> NoObj,      \* the object of the last Update request
    rv0 |-> 0,           \* the stored resourceVersion when the call started
    existed0 |-> FALSE,  \* whether the object was stored when the call started
    synced0 |-> FALSE,   \* whether the cache was synced when the retry loop started
    cancelled |-> FALSE ] \* the call's ctx has been cancelled

\* The object a caller passes in: its own spec and status, the operator's
\* label, and the resourceVersion it holds (0: none).
Payload(c, rv) ==
  [ exists |-> TRUE, rv |-> rv, data |-> c, status |-> c, labelled |-> TRUE ]

NewCall(op, pc, key, obj) ==
  [ IdleCall EXCEPT !.op = op, !.pc = pc, !.key = key, !.obj = obj,
                    !.rv0 = store[key].rv, !.existed0 = store[key].exists ]

\* The callers that start calls.
Active == { "y1" }

CanCall(c) ==
  /\ c \in Active
  /\ clientRet = "client"
  /\ call[c].pc \in { "idle", "done" }
  /\ calls < MaxCalls

\* ------------------------------------------------------------ construction

\* The objects stored at first: a labelled Role, a Role without the label,
\* and no SpireServer.
InitialObj(key) ==
  IF key = <<"Role", "a">> THEN Obj(StartRV, "o", "o", TRUE)
  ELSE IF key = <<"Role", "b">> THEN Obj(StartRV, "o", "o", FALSE)
  ELSE Gone(StartRV)

Init ==
  /\ bpc = "cacheNew"
  /\ bi = 1
  /\ informers = {}
  /\ cacheByObject = << >>
  /\ cacheRegistered = FALSE
  /\ failedAt = "none"
  /\ clientRet = "none"
  /\ cacheStarted = FALSE
  /\ cacheSynced = FALSE
  /\ store = [ k \in Keys |-> InitialObj(k) ]
  /\ cache = [ k \in Keys |-> NoObj ]
  /\ call = [ c \in Callers |-> IdleCall ]
  /\ extWrites = 0
  /\ calls = 0

\* cache.New
CacheNew ==
  /\ bpc = "cacheNew"
  /\ \/ /\ cacheByObject' = customCacheObjects
        /\ bpc' = "informers"
        /\ UNCHANGED failedAt
     \/ /\ bpc' = "failed"
        /\ failedAt' = "cacheNew"
        /\ UNCHANGED cacheByObject
  /\ UNCHANGED << bi, informers, cacheRegistered, clientRet, cacheStarted, cacheSynced, store, cache,
                  call, extWrites, calls >>

\* The loop going on after a GetInformer that returned an error.
GetInformerFailed_ignored ==
  /\ failedAt' = "informer"
  /\ bi' = bi + 1
  /\ UNCHANGED << bpc, informers >>

\* `if _, err = customCache.GetInformer(...); err != nil { return nil, err }`
GetInformerFailed ==
  /\ bpc' = "failed"
  /\ failedAt' = "informer"
  /\ UNCHANGED << bi, informers >>

\* One iteration of the loop over informerResources.
GetInformer ==
  /\ bpc = "informers"
  /\ bi <= Len(informerResources)
  /\ \/ /\ informers' = informers \cup { informerResources[bi] }
        /\ bi' = bi + 1
        /\ UNCHANGED << bpc, failedAt >>
     \/ GetInformerFailed
  /\ UNCHANGED << cacheByObject, cacheRegistered, clientRet, cacheStarted, cacheSynced, store, cache,
                  call, extWrites, calls >>

\* mgr.Add(customCache)
MgrAdd ==
  /\ bpc = "informers"
  /\ bi > Len(informerResources)
  /\ \/ /\ cacheRegistered' = TRUE
        /\ bpc' = "clientNew"
        /\ UNCHANGED failedAt
     \/ /\ bpc' = "failed"
        /\ failedAt' = "add"
        /\ UNCHANGED cacheRegistered
  /\ UNCHANGED << bi, informers, cacheByObject, clientRet, cacheStarted, cacheSynced, store, cache,
                  call, extWrites, calls >>

\* client.New with the cache as the client's reader
ClientNew ==
  /\ bpc = "clientNew"
  /\ \/ /\ bpc' = "built"
        /\ UNCHANGED failedAt
     \/ /\ bpc' = "failed"
        /\ failedAt' = "clientNew"
  /\ UNCHANGED << bi, informers, cacheByObject, cacheRegistered, clientRet, cacheStarted, cacheSynced,
                  store, cache, call, extWrites, calls >>

\* NewCustomClient returns what BuildCustomClient gave it.
NewCustomClient ==
  /\ bpc \in { "built", "failed" }
  /\ clientRet' = IF bpc = "built" THEN "client" ELSE "error"
  /\ bpc' = "returned"
  /\ UNCHANGED << bi, informers, cacheByObject, cacheRegistered, failedAt, cacheStarted, cacheSynced,
                  store, cache, call, extWrites, calls >>

\* ------------------------------------------------------------- environment

\* The manager starts the registered cache. The cache was added with mgr.Add
\* and nothing in BuildCustomClient waits for its informers: from here on the
\* cache answers reads, from indexers that are still empty.
StartCache ==
  /\ cacheRegistered
  /\ ~cacheStarted
  /\ cacheStarted' = TRUE
  /\ UNCHANGED << buildVars, cacheSynced, store, cache, call, extWrites, calls >>

\* The informers' initial list arrives: the cache holds the selected objects.
CacheSync ==
  /\ cacheStarted
  /\ ~cacheSynced
  /\ cacheSynced' = TRUE
  /\ cache' = [ k \in Keys |-> CacheView(cacheByObject, k, store[k]) ]
  /\ UNCHANGED << buildVars, cacheStarted, store, call, extWrites, calls >>

\* A watch event for key reaches the cache.
WatchEvent(key) ==
  /\ cacheSynced
  /\ cache[key] # CacheView(cacheByObject, key, store[key])
  /\ cache' = [ cache EXCEPT ![key] = CacheView(cacheByObject, key, store[key]) ]
  /\ UNCHANGED << buildVars, cacheStarted, cacheSynced, store, call, extWrites, calls >>

\* The objects other writers write: the ones the operator's label selects or
\* that are yet to be created.
ExtKeys == { k \in Keys : ~InitialObj(k).exists \/ InitialObj(k).labelled }

\* Another writer (writer X) changes an object's spec, removes its label,
\* deletes it, or creates it anew.
ExtWrite(key) ==
  /\ key \in ExtKeys
  /\ clientRet = "client"
  /\ extWrites < MaxExtWrites
  /\ extWrites' = extWrites + 1
  /\ LET o == store[key] IN
     \/ /\ o.exists
        /\ store' = [ store EXCEPT ![key] = Obj(o.rv + 1, "x", o.status, o.labelled) ]
     \/ /\ o.exists
        /\ o.labelled
        /\ store' = [ store EXCEPT ![key] = Obj(o.rv + 1, o.data, o.status, FALSE) ]
     \/ /\ o.exists
        /\ store' = [ store EXCEPT ![key] = Gone(o.rv) ]
     \/ /\ ~o.exists
        /\ store' = [ store EXCEPT ![key] = Obj(o.rv + 1, "x", "o", TRUE) ]
  /\ UNCHANGED << buildVars, cacheStarted, cacheSynced, cache, call, calls >>

\* -------------------------------------------------------------------- Get

GetStart(c, key) ==
  /\ CanCall(c)
  /\ call' = [ call EXCEPT ![c] = NewCall("Get", "cache", key, NoObj) ]
  /\ calls' = calls + 1
  /\ UNCHANGED << buildVars, cacheStarted, cacheSynced, store, cache, extWrites >>

\* Get without the fallback: the cache's error is returned as it is.
GetAfterCache_noFallback(cl, r) ==
  [ cl EXCEPT !.pc = "done", !.reads = @ + 1, !.result = r.err, !.out = r.obj ]

\* Get falling back on every error of the cache read.
GetAfterCache_anyError(cl, r) ==
  IF r.err # Nil
    THEN [ cl EXCEPT !.pc = "direct", !.reads = @ + 1 ]
    ELSE [ cl EXCEPT !.pc = "done", !.reads = @ + 1, !.result = r.err, !.out = r.obj ]

\* `err := c.Client.Get(ctx, key, obj)` and the test of err that follows it:
\* the call as it stands after the cache read r.
GetAfterCache(cl, r) ==
  IF r.err # Nil /\ IsNotFound(r.err)
    THEN [ cl EXCEPT !.pc = "direct", !.reads = @ + 1 ]
    ELSE [ cl EXCEPT !.pc = "done", !.reads = @ + 1, !.result = r.err, !.out = r.obj ]

GetCache(c) ==
  /\ call[c].op = "Get"
  /\ call[c].pc = "cache"
  /\ call' = [ call EXCEPT ![c] = GetAfterCache(call[c], CacheGet(call[c].key)) ]
  /\ UNCHANGED << buildVars, cacheStarted, cacheSynced, store, cache, extWrites, calls >>

\* The fallback read made through the cache reader once more.
DirectGet_cache(key) == CacheGet(key)

\* The reader of the fallback read: c.apiReader.
DirectGet(key) == StoreGet(key)

\* `return c.apiReader.Get(ctx, key, obj)`; the request may fail on the way.
GetDirect(c) ==
  /\ call[c].op = "Get"
  /\ call[c].pc = "direct"
  /\ \E r \in { DirectGet(call[c].key), [ err |-> Err("Unavailable"), obj |-> NoObj ] } :
       call' = [ call EXCEPT ![c] = [ @ EXCEPT !.pc = "done", !.directReads = @ + 1,
                                               !.result = r.err, !.out = r.obj ] ]
  /\ UNCHANGED << buildVars, cacheStarted, cacheSynced, store, cache, extWrites, calls >>

\* ------------------------------------------------------------------- List

\* `return c.Client.List(ctx, list, opts...)`
List(c, kind) ==
  /\ CanCall(c)
  /\ LET r == CacheList(kind) IN
       call' = [ call EXCEPT ![c] =
                   [ IdleCall EXCEPT !.op = "List", !.pc = "done", !.key = << kind >>,
                                     !.reads = 1, !.result = r.err, !.items = r.items ] ]
  /\ calls' = calls + 1
  /\ UNCHANGED << buildVars, cacheStarted, cacheSynced, store, cache, extWrites >>

\* ----------------------------------------------------------------- Exists

\* The (bool, error) pair Exists makes of the error of its read.
ExistsResult(err) ==
  IF err # Nil
    THEN IF IsNotFound(err) THEN [ ok |-> FALSE, err |-> Nil ]
                            ELSE [ ok |-> FALSE, err |-> err ]
    ELSE [ ok |-> TRUE, err |-> Nil ]

\* The read Exists makes: `c.Client.Get(ctx, key, obj)`.
ExistsRead(key) == CacheGet(key)

Exists(c, key) ==
  /\ CanCall(c)
  /\ LET r == ExistsRead(key)
         x == ExistsResult(r.err)
     IN  call' = [ call EXCEPT ![c] =
                     [ NewCall("Exists", "done", key, NoObj) EXCEPT
                         !.reads = 1, !.ok = x.ok, !.result = x.err, !.out = r.obj ] ]
  /\ calls' = calls + 1
  /\ UNCHANGED << buildVars, cacheStarted, cacheSynced, store, cache, extWrites >>

\* --------------------------------------------------- CreateOrUpdateObject

\* The API server's answer to a create: an object that carries a
\* resourceVersion is refused, whether or not the key is taken.
CreateErr(key, o) ==
  IF o.rv # 0 THEN Err("BadRequest")
  ELSE IF store[key].exists THEN Err("AlreadyExists")
  ELSE Nil

CreateOrUpdateObjectStart(c, key, rv) ==
  /\ CanCall(c)
  /\ call' = [ call EXCEPT ![c] = NewCall("CreateOrUpdateObject", "create", key, Payload(c, rv)) ]
  /\ calls' = calls + 1
  /\ UNCHANGED << buildVars, cacheStarted, cacheSynced, store, cache, extWrites >>

\* CreateOrUpdateObject falling back to Update on every error of Create.
CreateOrUpdateAfterCreate_anyError(cl, err) ==
  IF err # Nil
    THEN [ cl EXCEPT !.pc = "update", !.creates = @ + 1 ]
    ELSE [ cl EXCEPT !.pc = "done", !.creates = @ + 1, !.result = err ]

\* `err := c.Create(ctx, obj)` and the test of err that follows it: the call
\* as it stands after Create returned err.
CreateOrUpdateAfterCreate(cl, err) ==
  IF err # Nil /\ IsAlreadyExists(err)
    THEN [ cl EXCEPT !.pc = "update", !.creates = @ + 1 ]
    ELSE [ cl EXCEPT !.pc = "done", !.creates = @ + 1, !.result = err ]

CreateOrUpdateCreate(c) ==
  /\ call[c].op = "CreateOrUpdateObject"
  /\ call[c].pc = "create"
  /\ \E down \in BOOLEAN :
       LET key == call[c].key
           err == IF down THEN Err("Unavailable") ELSE CreateErr(key, call[c].obj)
       IN  /\ store' = IF err = Nil
                         THEN [ store EXCEPT ![key] = Created(key, call[c].obj) ]
                         ELSE store
           /\ call' = [ call EXCEPT ![c] = CreateOrUpdateAfterCreate(call[c], err) ]
  /\ UNCHANGED << buildVars, cacheStarted, cacheSynced, cache, extWrites, calls >>

\* `return c.Update(ctx, obj)`
CreateOrUpdateUpdate(c) ==
  /\ call[c].op = "CreateOrUpdateObject"
  /\ call[c].pc = "update"
  /\ \E down \in BOOLEAN :
       LET key == call[c].key
           err == IF down THEN Err("Unavailable") ELSE UpdateErr(key, call[c].obj.rv)
       IN  /\ store' = IF err = Nil
                         THEN [ store EXCEPT ![key] = Updated(key, call[c].obj) ]
                         ELSE store
           /\ call' = [ call EXCEPT ![c] =
                          [ @ EXCEPT !.pc = "done", !.writes = @ + 1, !.sent = call[c].obj,
                                     !.conflicts = @ + (IF IsConflict(err) THEN 1 ELSE 0),
                                     !.result = err ] ]
  /\ UNCHANGED << buildVars, cacheStarted, cacheSynced, cache, extWrites, calls >>

\* ---------------------------------- UpdateWithRetry, StatusUpdateWithRetry

RetryOps == { "UpdateWithRetry", "StatusUpdateWithRetry" }

RetryStart(c, op, key) ==
  /\ CanCall(c)
  /\ call' = [ call EXCEPT ![c] =
                 [ NewCall(op, "read", key, Payload(c, StartRV))
                     EXCEPT !.steps = DefaultRetrySteps, !.synced0 = cacheSynced ] ]
  /\ calls' = calls + 1
  /\ UNCHANGED << buildVars, cacheStarted, cacheSynced, store, cache, extWrites >>

\* A loop that retries after every error.
OnError_retryAll(cl, err) ==
  IF err = Nil THEN [ cl EXCEPT !.pc = "done", !.result = Nil ]
  ELSE IF cl.steps = 1
    THEN [ cl EXCEPT !.pc = "done", !.result = err ]
    ELSE [ cl EXCEPT !.pc = "sleep", !.steps = @ - 1 ]

\* A loop that retries on Conflict without counting its steps.
OnError_noBudget(cl, err) ==
  IF err = Nil THEN [ cl EXCEPT !.pc = "done", !.result = Nil ]
  ELSE IF IsConflict(err) THEN [ cl EXCEPT !.pc = "sleep" ]
  ELSE [ cl EXCEPT !.pc = "done", !.result = err ]

\* retry.RetryOnConflict(retry.DefaultRetry, fn) after fn returned err: nil
\* ends the loop, a Conflict is kept as the last error and retried while
\* steps are left, any other error ends the loop. When the steps run out the
\* loop returns the last error.
OnError(cl, err) ==
  IF err = Nil THEN [ cl EXCEPT !.pc = "done", !.result = Nil ]
  ELSE IF IsConflict(err)
    THEN IF cl.steps = 1
           THEN [ cl EXCEPT !.pc = "done", !.result = err ]
           ELSE [ cl EXCEPT !.pc = "sleep", !.steps = @ - 1 ]
  ELSE [ cl EXCEPT !.pc = "done", !.result = err ]

\* The read of an attempt: `c.Client.Get(ctx, key, current)`.
RetryGet(key) == CacheGet(key)

\* A read error that does not wrap the error of the read.
FetchErr_opaque(key, err) == [ class |-> "Unknown", key |-> key ]

\* The error fn returns for a failed read.
FetchErr(key, err) == Wrap(key, err)

\* A write error whose message leaves out the key.
WriteErr_noKey(key, err) == Err(err.class)

\* The error fn returns for a failed write.
WriteErr(key, err) == Wrap(key, err)

\* The read copy sent in place of the caller's object.
SetResourceVersion_copyAll(cl, current) == [ cl EXCEPT !.obj = current ]

\* The caller's object sent with no stamp.
SetResourceVersion_cleared(cl, current) == [ cl EXCEPT !.obj.rv = 0 ]

\* The caller's object sent with the stamp it came with.
SetResourceVersion_kept(cl, current) == cl

\* `obj.SetResourceVersion(current.GetResourceVersion())`
SetResourceVersion(cl, current) == [ cl EXCEPT !.obj.rv = current.rv ]

\* The first half of fn: the read, and `obj.SetResourceVersion(...)`.
RetryRead(c) ==
  /\ call[c].op \in RetryOps
  /\ call[c].pc = "read"
  /\ LET key == call[c].key
         r == RetryGet(key)
         cl == [ call[c] EXCEPT !.reads = @ + 1 ]
     IN  call' = [ call EXCEPT ![c] =
                     IF r.err # Nil
                       THEN OnError(cl, FetchErr(key, r.err))
                       ELSE [ SetResourceVersion(cl, r.obj) EXCEPT !.pc = "write" ] ]
  /\ UNCHANGED << buildVars, cacheStarted, cacheSynced, store, cache, extWrites, calls >>

\* The second half of fn: `c.Client.Update` or `c.Client.Status().Update`. A
\* request made with a cancelled ctx returns the ctx's error and does not
\* reach the API server.
RetryWrite(c) ==
  /\ call[c].op \in RetryOps
  /\ call[c].pc = "write"
  /\ \E down \in BOOLEAN :
       LET key == call[c].key
           err == IF call[c].cancelled THEN Err("Canceled")
                  ELSE IF down THEN Err("Unavailable")
                  ELSE IF call[c].op = "UpdateWithRetry" THEN UpdateErr(key, call[c].obj.rv)
                  ELSE StatusUpdateErr(key, call[c].obj.rv)
           cl == [ call[c] EXCEPT !.writes = @ + 1, !.sent = call[c].obj,
                                  !.conflicts = @ + (IF IsConflict(err) THEN 1 ELSE 0) ]
       IN  /\ store' = IF err = Nil
                         THEN [ store EXCEPT ![key] =
                                  IF call[c].op = "UpdateWithRetry"
                                    THEN Updated(key, call[c].obj)
                                    ELSE StatusUpdated(key, call[c].obj) ]
                         ELSE store
           /\ call' = [ call EXCEPT ![c] =
                          OnError(cl, IF err = Nil THEN Nil ELSE WriteErr(key, err)) ]
  /\ UNCHANGED << buildVars, cacheStarted, cacheSynced, cache, extWrites, calls >>

\* The backoff sleep between two attempts: wait.ExponentialBackoff sleeps
\* with time.Sleep, which does not look at the caller's ctx.
Backoff(c) ==
  /\ call[c].op \in RetryOps
  /\ call[c].pc = "sleep"
  /\ call' = [ call EXCEPT ![c] = [ @ EXCEPT !.pc = "read" ] ]
  /\ UNCHANGED << buildVars, cacheStarted, cacheSynced, store, cache, extWrites, calls >>

\* The caller's cancellation or deadline signal fires during a retry loop.
\* The read of an attempt is served by the cache, which does not look at ctx.
Cancel(c) ==
  /\ call[c].op \in RetryOps
  /\ call[c].pc \in { "read", "write", "sleep" }
  /\ ~call[c].cancelled
  /\ call' = [ call EXCEPT ![c] = [ @ EXCEPT !.cancelled = TRUE ] ]
  /\ UNCHANGED << buildVars, cacheStarted, cacheSynced, store, cache, extWrites, calls >>

\* ------------------------------------------------------------ specification

Next ==
  \/ CacheNew
  \/ GetInformer
  \/ MgrAdd
  \/ ClientNew
  \/ NewCustomClient
  \/ StartCache
  \/ CacheSync
  \/ \E key \in Keys : WatchEvent(key)
  \/ \E key \in Keys : ExtWrite(key)
  \/ \E c \in Callers, key \in Keys : GetStart(c, key)
  \/ \E c \in Callers : GetCache(c)
  \/ \E c \in Callers : GetDirect(c)
  \/ \E c \in Callers, key \in Keys : List(c, KindOf(key))
  \/ \E c \in Callers, key \in Keys : Exists(c, key)
  \/ \E c \in Callers, key \in Keys, rv \in { 0, StartRV } : CreateOrUpdateObjectStart(c, key, rv)
  \/ \E c \in Callers : CreateOrUpdateCreate(c)
  \/ \E c \in Callers : CreateOrUpdateUpdate(c)
  \/ \E c \in Callers, op \in RetryOps, key \in Keys : RetryStart(c, op, key)
  \/ \E c \in Callers : RetryRead(c)
  \/ \E c \in Callers : RetryWrite(c)
  \/ \E c \in Callers : Backoff(c)
  \/ \E c \in Callers : Cancel(c)

Spec == Init /\ [][Next]_vars

\* ------------------------------------------- concurrent retry loops

\* The keys the concurrent callers update: a Role and a SpireServer.
ConcurrentKeys == { <<"Role", "a">>, <<"SpireServer", "s">> }

\* The store once another writer has created the SpireServer.
ConcurrentObj(key) ==
  IF key = <<"SpireServer", "s">> THEN Obj(StartRV + 1, "x", "o", TRUE)
  ELSE InitialObj(key)

\* The state after BuildCustomClient returned the client and the manager
\* started the cache, its informers synced.
InitConcurrent ==
  /\ bpc = "returned"
  /\ bi = Len(informerResources) + 1
  /\ informers = Range(informerResources)
  /\ cacheByObject = customCacheObjects
  /\ cacheRegistered = TRUE
  /\ failedAt = "none"
  /\ clientRet = "client"
  /\ cacheStarted = TRUE
  /\ cacheSynced = TRUE
  /\ store = [ k \in Keys |-> ConcurrentObj(k) ]
  /\ cache = [ k \in Keys |-> CacheView(customCacheObjects, k, ConcurrentObj(k)) ]
  /\ call = [ c \in Callers |-> IdleCall ]
  /\ extWrites = 1
  /\ calls = 0

\* A caller (a reconciler goroutine) enters UpdateWithRetry or
\* StatusUpdateWithRetry; the callers share the client and take no lock.
ConcurrentRetryStart(c, op, key) ==
  /\ call[c].pc = "idle"
  /\ call' = [ call EXCEPT ![c] =
                 [ NewCall(op, "read", key, Payload(c, StartRV))
                     EXCEPT !.steps = DefaultRetrySteps, !.synced0 = cacheSynced ] ]
  /\ UNCHANGED << buildVars, cacheStarted, cacheSynced, store, cache, extWrites, calls >>

NextConcurrent ==
  \/ \E c \in Callers, op \in RetryOps, key \in ConcurrentKeys : ConcurrentRetryStart(c, op, key)
  \/ \E c \in Callers : RetryRead(c)
  \/ \E c \in Callers : RetryWrite(c)
  \/ \E c \in Callers : Backoff(c)
  \/ \E key \in ConcurrentKeys : WatchEvent(key)

SpecConcurrent == InitConcurrent /\ [][NextConcurrent]_vars

\* A step of caller c's retry loop: its read, its write or the end of its
\* backoff sleep.
RetryStep(c) == RetryRead(c) \/ RetryWrite(c) \/ Backoff(c)

\* The concurrent loops when every read and every write returns and every
\* backoff sleep ends; nothing is assumed of the watch.
SpecTermination ==
  SpecConcurrent /\ \A c \in Callers : WF_vars(RetryStep(c))

\* ------------------------------------------------------------------ claims

\* The step on which caller c's call returns.
Returns(c) == call[c].pc # "done" /\ call'[c].pc = "done"

\* C1: when the cache read of a Get reports NotFound while the store holds
\* the object, Get does not return the cache's NotFound: it returns what the
\* API reader returns, which (unless that request fails on the way) is
\* success with the stored object.
C1_GetFallback ==
  [][ \A c \in Callers :
        LET key == call[c].key IN
        ( /\ call[c].op = "Get"
          /\ Returns(c)
          /\ \/ call[c].pc = "direct"
             \/ call[c].pc = "cache" /\ IsNotFound(CacheGet(key).err)
          /\ store[key].exists )
        => /\ call[c].pc = "direct"
           /\ ~IsNotFound(call'[c].result)
           /\ call'[c].result.class # "Unavailable"
                => call'[c].result = Nil /\ call'[c].out = store[key] ]_vars

\* C1 witness: a Get returned, through the API reader, an object that the
\* started cache does not hold.
C1_Witness ==
  \E c \in Callers :
    /\ call[c].op = "Get" /\ call[c].pc = "done"
    /\ call[c].directReads = 1
    /\ call[c].result = Nil
    /\ call[c].out = store[call[c].key]
    /\ cacheStarted /\ ~cache[call[c].key].exists

\* C2: Exists returns (true, nil) for a key that is in the store, (false,
\* nil) for a key that is not, (false, err) for any other error, and never a
\* NotFound error.
C2_ExistsReflectsStore ==
  \A c \in Callers :
    (call[c].op = "Exists" /\ call[c].pc = "done")
    => /\ ~IsNotFound(call[c].result)
       /\ call[c].result = Nil => call[c].ok = call[c].existed0
       /\ call[c].result # Nil => ~call[c].ok

\* C3: the read of every attempt of UpdateWithRetry and
\* StatusUpdateWithRetry obtains the resourceVersion the store holds at the
\* time of the read.
C3_RetryReadsStore ==
  [][ \A c \in Callers :
        ( /\ call[c].op \in RetryOps
          /\ call[c].pc = "read"
          /\ call'[c].pc = "write" )
        => call'[c].obj.rv = store[call[c].key].rv ]_vars

\* C4: an UpdateWithRetry of an object that exists (and carries the label the
\* cache selects), with the store available, the cache synced before the
\* call, the call not cancelled and no other writer changing the object
\* during the call, returns success after one read
\* and one write, whatever the cache held when the call started.
C4_FirstAttemptSucceeds ==
  \A c \in Callers :
    LET key == call[c].key IN
    ( /\ call[c].op = "UpdateWithRetry" /\ call[c].pc = "done"
      /\ ~call[c].cancelled
      /\ call[c].synced0
      /\ call[c].existed0
      /\ store[key].exists /\ store[key].labelled
      /\ call[c].result.class # "Unavailable"
      /\ store[key].rv = call[c].rv0 + (IF call[c].result = Nil THEN 1 ELSE 0) )
    => /\ call[c].result = Nil
       /\ call[c].reads = 1
       /\ call[c].writes = 1

\* C5: with writer X as the one concurrent writer, which stops after
\* MaxExtWrites writes, UpdateWithRetry never returns a Conflict error.
C5_NoConflictReturned ==
  \A c \in Callers :
    (call[c].op = "UpdateWithRetry" /\ call[c].pc = "done")
    => ~IsConflict(call[c].result)

\* C6: when every attempt of the retry budget was rejected as Conflict, the
\* error returned by UpdateWithRetry / StatusUpdateWithRetry is classified
\* Conflict and names the object's key.
C6_BudgetExhaustion ==
  \A c \in Callers :
    ( /\ call[c].op \in RetryOps /\ call[c].pc = "done"
      /\ call[c].conflicts = DefaultRetrySteps )
    => /\ IsConflict(call[c].result)
       /\ call[c].result.key = call[c].key

\* C6 witness: a retry loop returned after DefaultRetrySteps conflicts.
C6_Witness ==
  \E c \in Callers :
    /\ call[c].op \in RetryOps /\ call[c].pc = "done"
    /\ call[c].conflicts = DefaultRetrySteps
    /\ call[c].writes = DefaultRetrySteps

\* C7: the object is stored at version StartRV (5); writer X updates its spec
\* once (to 6) while Y, holding stamp 5, calls UpdateWithRetry (and does not
\* cancel it) and has a write rejected as Conflict. Then Y's second attempt reads 6 and is accepted: Y
\* returns success after two writes and the stored version is 7 with Y's
\* payload.
C7_ConflictScenario ==
  \A c \in Callers :
    LET key == call[c].key IN
    ( /\ call[c].op = "UpdateWithRetry" /\ call[c].pc = "done"
      /\ ~call[c].cancelled
      /\ call[c].existed0 /\ call[c].rv0 = StartRV
      /\ extWrites = 1
      /\ store[key].exists /\ store[key].labelled
      /\ store[key].rv = StartRV + 1 + (IF call[c].result = Nil THEN 1 ELSE 0)
      /\ call[c].conflicts >= 1
      /\ call[c].result.class # "Unavailable" )
    => /\ call[c].result = Nil
       /\ call[c].writes = 2
       /\ store[key].rv = StartRV + 2
       /\ store[key].data = c

\* C8: in a CreateOrUpdateObject, a Create that finds the key free is
\* followed by no Update, and if it is accepted the object is stored with the
\* caller's payload; Update is issued only after a Create that found the key
\* taken (AlreadyExists), once, with the caller's object as it was passed in,
\* and its result is the call's result; no call issues more than one Create
\* or issues a Create after its Update.
C8_CreateOrUpdate ==
  /\ [] ( \A c \in Callers :
            call[c].op = "CreateOrUpdateObject"
            => /\ call[c].creates <= 1
               /\ call[c].writes <= 1
               /\ call[c].pc = "create" => call[c].creates = 0 /\ call[c].writes = 0
               /\ call[c].pc = "update" => call[c].creates = 1 /\ call[c].writes = 0
               /\ call[c].writes = 1 => call[c].creates = 1 /\ call[c].pc = "done" )
  /\ [][ \A c \in Callers :
          LET key == call[c].key IN
          /\ ( /\ call[c].op = "CreateOrUpdateObject"
               /\ call[c].pc = "create"
               /\ call'[c].pc # "create" )
             => /\ call'[c].creates = 1
                /\ ~store[key].exists
                     => /\ call'[c].pc = "done"
                        /\ call'[c].writes = 0
                        /\ call'[c].result = Nil
                             => store'[key] = Created(key, call[c].obj)
                /\ call'[c].pc = "update"
                     => /\ store[key].exists
                        /\ store' = store
                        /\ call'[c].obj = call[c].obj
          /\ ( /\ call[c].op = "CreateOrUpdateObject"
               /\ call[c].pc = "update"
               /\ call'[c].pc # "update" )
             => /\ call'[c].pc = "done"
                /\ call'[c].creates = 1
                /\ call'[c].writes = 1
                /\ call'[c].sent = call[c].obj
                /\ call'[c].result \in { UpdateErr(key, call[c].obj.rv), Err("Unavailable") }
                /\ call'[c].result = Nil
                     => store'[key] = Updated(key, call[c].obj) ]_vars

\* C8 witness: a CreateOrUpdateObject whose Create found the key taken has
\* returned the success of its one Update.
C8_Witness ==
  \E c \in Callers :
    /\ call[c].op = "CreateOrUpdateObject" /\ call[c].pc = "done"
    /\ call[c].creates = 1 /\ call[c].writes = 1
    /\ call[c].result = Nil
    /\ store[call[c].key].data = c

\* The kinds cached with the label selector.
FilteredKinds == Range(cacheResources)

\* C9: the cache holds, and List returns, no object of a filtered kind that
\* lacks the label, whatever the store holds; the objects List returns are
\* the ones the cache holds when it is called.
C9_ListFiltered ==
  /\ [] ( /\ \A key \in Keys :
               (KindOf(key) \in FilteredKinds /\ cache[key].exists) => cache[key].labelled
          /\ \A c \in Callers :
               (call[c].op = "List" /\ call[c].pc = "done" /\ call[c].key[1] \in FilteredKinds)
               => \A item \in call[c].items : item[2].labelled )
  /\ [][ \A c \in Callers :
          (call'[c].op = "List" /\ call'[c] # call[c])
          => \A key \in Keys :
               ( \E item \in call'[c].items : item[1] = key )
               <=> ( /\ KindOf(key) = call'[c].key[1]
                     /\ cacheStarted
                     /\ cache[key].exists ) ]_vars

\* C9 witness: a List of a filtered kind returned objects while the store
\* holds an object of the kind, without the label, that it did not return.
C9_Witness ==
  \E c \in Callers :
    /\ call[c].op = "List" /\ call[c].pc = "done"
    /\ call[c].result = Nil
    /\ call[c].items # {}
    /\ \E key \in Keys :
         /\ KindOf(key) = call[c].key[1]
         /\ KindOf(key) \in FilteredKinds
         /\ store[key].exists /\ ~store[key].labelled
         /\ \A item \in call[c].items : item[1] # key

\* C10: when a GetInformer of the loop has failed, the cache is not
\* registered with the manager and no client is returned (NewCustomClient
\* returns an error); a client is returned only when every kind of
\* informerResources has its informer and the cache is registered.
C10_AllOrNothing ==
  /\ failedAt = "informer"
       => /\ ~cacheRegistered
          /\ clientRet # "client"
          /\ bpc \in { "failed", "returned" }
          /\ bpc = "returned" => clientRet = "error"
  /\ clientRet = "client"
       => /\ informers = Range(informerResources)
          /\ cacheRegistered
          /\ failedAt = "none"

\* C10 witness: NewCustomClient returned an error after a GetInformer failed
\* part of the way through the loop.
C10_Witness ==
  /\ failedAt = "informer"
  /\ clientRet = "error"
  /\ informers # {}
  /\ informers # Range(informerResources)

\* The reads of the Access Client.
ReadOps == { "Get", "List", "Exists" }

\* Caller c's finished read was answered by the cache: a List or an Exists
\* that returned without error, or a Get that returned the cache's object.
AnsweredFromCache(c) ==
  /\ call[c].op \in ReadOps
  /\ call[c].pc = "done"
  /\ call[c].result = Nil
  /\ call[c].directReads = 0

\* C11: a client is returned only with every kind of informerResources
\* registered, and no Get, List or Exists is answered from the cache before
\* the cache is started and its informers are synced.
C11_Readiness ==
  /\ clientRet = "client" => informers = Range(informerResources)
  /\ \A c \in Callers : AnsweredFromCache(c) => cacheStarted /\ cacheSynced

\* C12: once the caller's ctx is cancelled during UpdateWithRetry or
\* StatusUpdateWithRetry, the call waits out no backoff sleep and starts no
\* further attempt: a cancelled call that is in its backoff sleep takes no
\* step but its return, and a cancelled write reaches no store.
C12_Cancellation ==
  [][ \A c \in Callers :
        ( /\ call[c].op \in RetryOps
          /\ call[c].cancelled
          /\ call'[c] # call[c] )
        => /\ call[c].pc = "sleep"
                => /\ call'[c].pc = "done"
                   /\ call'[c].reads = call[c].reads
                   /\ call'[c].writes = call[c].writes
           /\ call[c].pc = "write"
                => /\ call'[c].pc = "done"
                   /\ store' = store ]_vars

\* C13: when the cache read of a Get fails with an error other than NotFound
\* (cache not started, kind not cached), Get returns that same error
\* unchanged and makes no read against the API reader.
C13_GetNoFallback ==
  [][ \A c \in Callers :
        LET r == CacheGet(call[c].key) IN
        ( /\ call[c].op = "Get"
          /\ call[c].pc = "cache"
          /\ call'[c] # call[c]
          /\ r.err # Nil
          /\ ~IsNotFound(r.err) )
        => /\ call'[c].pc = "done"
           /\ call'[c].result = r.err
           /\ call'[c].directReads = 0 ]_vars

\* C13 witness: a Get returned the cache's "not started" error after one
\* cache read and no read of the API reader.
C13_Witness ==
  \E c \in Callers :
    /\ call[c].op = "Get" /\ call[c].pc = "done"
    /\ call[c].result = Err("CacheNotStarted")
    /\ call[c].reads = 1
    /\ call[c].directReads = 0

\* C14: every write of UpdateWithRetry / StatusUpdateWithRetry carries the
\* stamp returned by the read of the same attempt: the read puts the stamp it
\* returned on the caller's object and changes nothing else of it, the object
\* is not touched between the read and the write, the write sends it as it
\* is, and a write is made only after the read of its attempt succeeded.
C14_StampFromRead ==
  [][ \A c \in Callers :
        LET key == call[c].key
            r == RetryGet(key)
        IN
        ( call[c].op \in RetryOps /\ call[c].pc # "done" )
        => /\ ( call[c].pc = "read" /\ call'[c].pc = "write" )
                => /\ r.err = Nil
                   /\ call'[c].obj = [ call[c].obj EXCEPT !.rv = r.obj.rv ]
                   /\ call'[c].reads = call[c].writes + 1
           /\ ( call[c].pc = "write" /\ call'[c].pc = "write" )
                => call'[c].obj = call[c].obj
           /\ call'[c].writes # call[c].writes
                => /\ call[c].pc = "write"
                   /\ call'[c].writes = call[c].writes + 1
                   /\ call[c].reads = call'[c].writes
                   /\ call'[c].sent = call[c].obj ]_vars

\* C14 witness: a call whose second write was accepted with a stamp that is
\* neither the caller's nor the first attempt's.
C14_Witness ==
  \E c \in Callers :
    /\ call[c].op \in RetryOps /\ call[c].pc = "done"
    /\ call[c].result = Nil
    /\ call[c].writes = 2
    /\ call[c].reads = 2
    /\ call[c].sent.rv = StartRV + 1
    /\ store[call[c].key].rv = StartRV + 2

\* C15: when the read of an attempt of UpdateWithRetry / StatusUpdateWithRetry
\* fails (NotFound included), the call returns on that step with an error of
\* the read error's class that names the key; no write is made in that
\* attempt, no further attempt follows and the store is unchanged.
C15_ReadFailureAborts ==
  [][ \A c \in Callers :
        LET key == call[c].key
            r == RetryGet(key)
        IN
        ( /\ call[c].op \in RetryOps
          /\ call[c].pc = "read"
          /\ call'[c] # call[c]
          /\ call'[c].cancelled = call[c].cancelled
          /\ r.err # Nil )
        => /\ call'[c].pc = "done"
           /\ call'[c].result.class = r.err.class
           /\ call'[c].result.key = key
           /\ call'[c].writes = call[c].writes
           /\ call'[c].reads = call[c].reads + 1
           /\ store' = store ]_vars

\* C15 witness: a retry loop returned NotFound from the read of its second
\* attempt, after one write.
C15_Witness ==
  \E c \in Callers :
    /\ call[c].op \in RetryOps /\ call[c].pc = "done"
    /\ IsNotFound(call[c].result)
    /\ call[c].result.key = call[c].key
    /\ call[c].reads = 2
    /\ call[c].writes = 1

\* The answer the API server gave to the write caller c made on this step.
WriteAnswer(c) ==
  IF call'[c].conflicts # call[c].conflicts THEN "Conflict"
  ELSE IF store'[call[c].key] # store[call[c].key] THEN "accepted"
  ELSE IF call'[c].result = Nil /\ call'[c].pc = "done" THEN "accepted"
  ELSE "rejected"

\* C16: a new attempt of the retry loop starts only after the previous
\* attempt's write was rejected as Conflict; a write rejected for another
\* reason returns that error at once, an accepted write returns success, and
\* a call that has returned makes no further read or write.
C16_RetryOnlyOnConflict ==
  [][ \A c \in Callers :
        ( call[c].op \in RetryOps /\ call'[c] # call[c] )
        => /\ ( call'[c].pc = "sleep" /\ call[c].pc # "sleep" )
                => /\ call[c].pc = "write"
                   /\ WriteAnswer(c) = "Conflict"
           /\ ( call'[c].pc = "read" /\ call[c].pc \notin { "read", "done" } )
                => call[c].pc = "sleep"
           /\ ( call[c].pc = "write" /\ call'[c].writes # call[c].writes
                 /\ WriteAnswer(c) = "rejected" )
                => /\ call'[c].pc = "done"
                   /\ call'[c].result # Nil
                   /\ ~IsConflict(call'[c].result)
           /\ ( call[c].pc = "write" /\ call'[c].writes # call[c].writes
                 /\ WriteAnswer(c) = "accepted" )
                => /\ call'[c].pc = "done"
                   /\ call'[c].result = Nil
           /\ call[c].pc = "done"
                => /\ call'[c].pc \in { "read", "cache", "create", "done" }
                   /\ call'[c].reads <= 1
                   /\ call'[c].writes = 0 ]_vars

\* C16 witness: a retry loop whose first write was a Conflict returned, after
\* its second write, an error that is not a Conflict.
C16_Witness ==
  \E c \in Callers :
    /\ call[c].op \in RetryOps /\ call[c].pc = "done"
    /\ call[c].conflicts = 1
    /\ call[c].writes = 2
    /\ call[c].result # Nil
    /\ ~IsConflict(call[c].result)

\* The calls that returned success for key.
Accepted(key) ==
  { c \in Callers : /\ call[c].op \in RetryOps /\ call[c].key = key
                    /\ call[c].pc = "done" /\ call[c].result = Nil }

\* C17: with two callers running the retry loops on the same keys and no
\* lock between them, a write is accepted only with the stamp the store
\* holds and advances the stored stamp by exactly one; a write with another
\* stamp is answered Conflict and, while steps are left, the caller goes on
\* to re-read; no two callers have their writes accepted for one stamp.
C17_ConcurrentLoops ==
  /\ [] ( \A key \in ConcurrentKeys :
            /\ store[key].rv = ConcurrentObj(key).rv + Cardinality(Accepted(key))
            /\ \A c, d \in Accepted(key) : c # d => call[c].sent.rv # call[d].sent.rv )
  /\ [][ \A c \in Callers :
            LET key == call[c].key IN
            ( /\ call[c].op \in RetryOps
              /\ call[c].pc = "write"
              /\ call'[c].writes = call[c].writes + 1 )
            => /\ store'[key] # store[key]
                    => /\ call[c].obj.rv = store[key].rv
                       /\ store'[key].rv = store[key].rv + 1
                       /\ call'[c].pc = "done" /\ call'[c].result = Nil
               /\ ( call[c].obj.rv # store[key].rv /\ call'[c].result.class # "Unavailable"
                     /\ ( call[c].op = "StatusUpdateWithRetry" => HasStatusSubresource(key) ) )
                    => /\ store' = store
                       /\ call'[c].conflicts = call[c].conflicts + 1
                       /\ call[c].steps > 1 => call'[c].pc = "sleep" ]_vars

\* C17 witness: both callers read the same stamp of one key and wrote; one
\* was accepted at once, the other after one Conflict and a second read.
C17_Witness ==
  \E c, d \in Callers :
    /\ c # d
    /\ call[c].key = call[d].key
    /\ { c, d } \subseteq Accepted(call[c].key)
    /\ call[c].writes = 1 /\ call[c].conflicts = 0
    /\ call[d].writes = 2 /\ call[d].conflicts = 1
    /\ call[d].sent.rv = call[c].sent.rv + 1
    /\ store[call[c].key].rv = call[c].sent.rv + 2

\* C18: provided each read and each write returns, every call of
\* UpdateWithRetry / StatusUpdateWithRetry returns, after at most
\* DefaultRetrySteps reads and DefaultRetrySteps writes, with success, with an
\* error that is not a Conflict, or with the Conflict of its last attempt
\* when every attempt of the budget was a Conflict.
C18_BoundedTermination ==
  /\ [] ( \A c \in Callers :
            call[c].op \in RetryOps
            => /\ call[c].reads <= DefaultRetrySteps
               /\ call[c].writes <= call[c].reads
               /\ call[c].conflicts <= call[c].writes
               /\ call[c].pc = "done"
                    => \/ call[c].result = Nil
                       \/ ~IsConflict(call[c].result)
                       \/ call[c].conflicts = DefaultRetrySteps )
  /\ \A c \in Callers :
       ( call[c].op \in RetryOps ) ~> ( call[c].pc = "done" )

\* C18 witness: a call returned the Conflict of its last attempt, its budget
\* of attempts used up while the other caller's write stayed out of the cache.
C18_Witness ==
  \E c, d \in Callers :
    /\ c # d
    /\ call[c].key = call[d].key
    /\ d \in Accepted(call[d].key)
    /\ call[c].op \in RetryOps /\ call[c].pc = "done"
    /\ IsConflict(call[c].result)
    /\ call[c].reads = DefaultRetrySteps
    /\ call[c].writes = DefaultRetrySteps
    /\ call[c].steps = 1

\* The step on which a write of caller c's UpdateWithRetry is accepted.
UpdateAccepted(c) ==
  /\ call[c].op = "UpdateWithRetry"
  /\ call[c].pc = "write"
  /\ call'[c].writes = call[c].writes + 1
  /\ store'[call[c].key] # store[call[c].key]

\* C19 as stated: right after a write of UpdateWithRetry is accepted, every
\* field of the stored object but the resourceVersion equals the caller's
\* payload as built before the call.
C19_LastWriterWins ==
  [][ \A c \in Callers :
        UpdateAccepted(c)
        => store'[call[c].key] =
             [ Payload(c, StartRV) EXCEPT !.rv = store[call[c].key].rv + 1 ] ]_vars

\* C19 amended: right after a write of UpdateWithRetry is accepted, the spec
\* and the labels of the stored object are the caller's payload as built
\* before the call, whatever other writers stored since the call started; the
\* status is the payload's only for a kind without a status subresource and
\* otherwise stays as stored; the resourceVersion advances by one and the
\* call returns success.
C19_LastWriterWinsSpec ==
  [][ \A c \in Callers :
        LET key == call[c].key IN
        UpdateAccepted(c)
        => /\ store'[key].exists
           /\ store'[key].data = Payload(c, StartRV).data
           /\ store'[key].labelled = Payload(c, StartRV).labelled
           /\ store'[key].status = IF HasStatusSubresource(key)
                                     THEN store[key].status
                                     ELSE Payload(c, StartRV).status
           /\ store'[key].rv = store[key].rv + 1
           /\ call'[c].pc = "done"
           /\ call'[c].result = Nil ]_vars

\* C19 witness: an UpdateWithRetry of a SpireServer that another writer
\* changed after the call started returned success with no Conflict; the
\* stored spec is the caller's and the stored status is not.
C19_Witness ==
  \E c \in Callers :
    LET key == call[c].key IN
    /\ call[c].op = "UpdateWithRetry" /\ call[c].pc = "done"
    /\ call[c].result = Nil
    /\ call[c].conflicts = 0
    /\ HasStatusSubresource(key)
    /\ call[c].existed0
    /\ store[key].rv = call[c].rv0 + 2
    /\ store[key].data = Payload(c, StartRV).data
    /\ store[key].status # Payload(c, StartRV).status

\* C20: a Get makes at most one cache read and at most one read of the API
\* reader, the latter only after the cache read returned NotFound; a Get that
\* returns NotFound has made that read of the API reader, and on the step of
\* its return the store does not hold the object.
C20_NotFoundAuthoritative ==
  /\ [] ( \A c \in Callers :
            call[c].op = "Get"
            => /\ call[c].reads <= 1
               /\ call[c].directReads <= 1
               /\ call[c].directReads <= call[c].reads
               /\ call[c].pc = "direct" => call[c].reads = 1 /\ call[c].directReads = 0
               /\ ( call[c].pc = "done" /\ IsNotFound(call[c].result) )
                    => call[c].directReads = 1 )
  /\ [][ \A c \in Callers :
            LET key == call[c].key IN
            ( call[c].op = "Get" /\ call[c].pc # "done" /\ call'[c] # call[c] )
            => /\ ( call[c].pc = "cache" /\ call'[c].pc = "direct" )
                    => IsNotFound(CacheGet(key).err)
               /\ call'[c].directReads # call[c].directReads
                    => call[c].pc = "direct"
               /\ ( Returns(c) /\ IsNotFound(call'[c].result) )
                    => /\ call[c].pc = "direct"
                       /\ ~store[key].exists ]_vars

\* C20 witness: a Get returned NotFound after one cache read and one read of
\* the API reader, for an object the store does not hold.
C20_Witness ==
  \E c \in Callers :
    /\ call[c].op = "Get" /\ call[c].pc = "done"
    /\ IsNotFound(call[c].result)
    /\ call[c].reads = 1
    /\ call[c].directReads = 1
    /\ ~store[call[c].key].exists

====
